---- MODULE Spec2Model ----
(***************************************************************************)
(* Reconciliation of local declarations (blueprints, integration mappings, *)
(* scorecards) against the Port.io catalog, as implemented by              *)
(*   - src/main.py                        (first blueprint script)         *)
(*   - src/port_io_manager/cli.py         (second blueprint script, with   *)
(*     client.py / comparator.py / utils.py)                               *)
(*   - src/port_io_manager/cli/commands.py with core/ and api/             *)
(*     (sync-blueprint, sync-mapping, sync-scorecard).                     *)
(*                                                                         *)
(* One run reconciles a list of NumFiles declaration files in order.  The  *)
(* content of each file, every answer of the remote service and every      *)
(* answer of the user are inputs, drawn when the code reads them.          *)
(*                                                                         *)
(* A structured document (JSON / YAML mapping) is a function from paths    *)
(* (sequences of keys) to scalar leaves: {"schema": {"properties":         *)
(* {"name": 1}}} is (<<"schema","properties","name">> :> 1).               *)
(***************************************************************************)
EXTENDS Naturals, Integers, Sequences, FiniteSets, TLC

\* Number of declaration files in the batch.
NumFiles == 2

\* Exit code of a process that has not exited yet.
Running == 0 - 1

Files == 1..NumFiles

----------------------------------------------------------------------------
(* Documents *)

EmptyDoc == << >>

TopKeys(d) == {p[1] : p \in DOMAIN d}

HasKey(d, k) == k \in TopKeys(d)

\* d[k] for a key that holds a mapping: the paths below k.
Sub(d, k) ==
  LET below == {p \in DOMAIN d : p[1] = k /\ Len(p) > 1}
  IN  [q \in {Tail(p) : p \in below} |-> d[<<k>> \o q]]

\* dict.pop(k, None) for every k in ks, on a copy.
Without(d, ks) == [p \in {x \in DOMAIN d : x[1] \notin ks} |-> d[p]]

\* dict.update: every top-level key of upd replaces that key of base.
Update(base, upd) ==
  [p \in {x \in DOMAIN base : x[1] \notin TopKeys(upd)} \cup DOMAIN upd |->
     IF p \in DOMAIN upd THEN upd[p] ELSE base[p]]

\* One document built from a set of <<path, value>> pairs.
Doc(pairs) == [p \in {x[1] : x \in pairs} |-> (CHOOSE x \in pairs : x[1] = p)[2]]

\* A key test that every document passes.
Truthy_always(d, k) == TRUE

\* Python truthiness of d.get(k) for a scalar key: present and not 0 / "".
Truthy(d, k) == <<k>> \in DOMAIN d /\ d[<<k>>] # 0

----------------------------------------------------------------------------
(* deepdiff.DeepDiff(t1, t2, ignore_order=True, exclude_paths=...) *)

\* A leaf is a number; a negative number stands for a string (-1 is the
\* string "1"), so that two leaves can differ in value or in type.
TypeOf(v) == IF v < 0 THEN "str" ELSE "int"

\* A sequence (JSON array) at path q is the leaf q \o <<"#">> and one leaf
\* q \o <<"#", x>> for each element x: ignore_order compares it as a set.
IsItem(p) == \E i \in 1..(Len(p) - 1) : p[i] = "#"

ListOf(p) == SubSeq(p, 1, CHOOSE i \in 1..Len(p) : p[i] = "#" /\ \A j \in 1..(i - 1) : p[j] # "#")

Excluded(p, exclude_paths) == \E e \in exclude_paths : p[1] = e

\* A comparison that reports a changed value as one item removed and one added.
DeepDiff_replacing(t1, t2, exclude_paths) ==
  LET P1 == {p \in DOMAIN t1 : ~Excluded(p, exclude_paths)}
      P2 == {p \in DOMAIN t2 : ~Excluded(p, exclude_paths)}
      changed == {p \in P1 \cap P2 : t1[p] # t2[p]}
  IN  [dictionary_item_added   |-> (P2 \ P1) \cup changed,
       dictionary_item_removed |-> (P1 \ P2) \cup changed,
       values_changed          |-> {},
       type_changes            |-> {},
       iterable_item_added     |-> {},
       iterable_item_removed   |-> {}]

\* The paths are reported leaf by leaf.  An element of a sequence both
\* sides have is an iterable item; everything else only one side has is a
\* dictionary item.
DeepDiff(t1, t2, exclude_paths) ==
  LET P1 == {p \in DOMAIN t1 : ~Excluded(p, exclude_paths)}
      P2 == {p \in DOMAIN t2 : ~Excluded(p, exclude_paths)}
      item_added   == {p \in P2 \ P1 : IsItem(p) /\ ListOf(p) \in P1}
      item_removed == {p \in P1 \ P2 : IsItem(p) /\ ListOf(p) \in P2}
  IN  [dictionary_item_added   |-> (P2 \ P1) \ item_added,
       dictionary_item_removed |-> (P1 \ P2) \ item_removed,
       values_changed          |-> {p \in P1 \cap P2 :
                                      t1[p] # t2[p] /\ TypeOf(t1[p]) = TypeOf(t2[p])},
       type_changes            |-> {p \in P1 \cap P2 : TypeOf(t1[p]) # TypeOf(t2[p])},
       iterable_item_added     |-> item_added,
       iterable_item_removed   |-> item_removed]

\* "if not diff": a DeepDiff (or a dict made from one) with no entry is falsy.
NoDiff(diff) ==
  /\ diff.dictionary_item_added = {}
  /\ diff.dictionary_item_removed = {}
  /\ diff.values_changed = {}
  /\ diff.type_changes = {}
  /\ diff.iterable_item_added = {}
  /\ diff.iterable_item_removed = {}

\* What a comparison was: "empty" when DeepDiff found nothing,
\* "unformatted" when it found something the code then dropped, else
\* "nonempty".
DiffKind(raw, seen) ==
  IF NoDiff(raw) THEN "empty" ELSE IF NoDiff(seen) THEN "unformatted" ELSE "nonempty"

----------------------------------------------------------------------------
(* What the file system and the service can answer *)

\* What loading a declaration file gives:
\*   ok          a non-empty mapping
\*   invalid     the parser rejects the text (JSONDecodeError / YAMLError)
\*   missing     FileNotFoundError
\*   unreadable  another OSError from open() (PermissionError)
\*   empty_dict  the document {}
\*   null        the document null (an empty YAML file loads to None)
\*   list        a non-empty sequence at the top level
LoadKinds == {"ok", "invalid", "missing", "unreadable", "empty_dict", "null", "list"}

\* HTTP status of an answer; 0 stands for no answer at all (a
\* requests.exceptions.RequestException that is not an HTTPError).
GetStatuses == {200, 404, 500, 0}

WriteStatuses == {200, 404, 409, 422, 500, 0}

\* What the user types at a prompt: the commands and the service take "y"
\* for yes, the two scripts take "s".
Answers == {"y", "s", "n"}

----------------------------------------------------------------------------
(* The result of one handler call *)

NoChange == [action |-> "none", payload |-> EmptyDoc]

\* status   the status the handler returns (or the return site it left by)
\* raised   an exception left the handler
\* flag     the handler set has_failures
\* calls    the Gateway calls it made, in order
\* fetch    what the fetch of the remote object gave
\* diff     whether the comparison it made was empty; where it fetched the
\*          object and failed before comparing, whether the fetched object
\*          and the declaration differ outside the excluded fields
\* recent   the fetched object was updated within the protection window
\* inputs   what the pass read: the file, the answers of the service
\* doc      the document the file gave (set by Loaded)
\* related  whether the blueprint the declaration's relation targets exists
\*          remotely: "exists", "missing", "none" without a relation
\* age      seconds since the updatedAt of the fetched object, NoAge without
\* change   change_data handed back for a later apply
\* local    the declaration, once the remote object was fetched
\* remote   the fetched remote object it is compared with
\* What one pass reads: how the file loads and the document in it, the
\* status and body of the fetch (bstatus and bbody: of the blueprint fetch of
\* a scorecard validation), whether an error message holds "404" in its URL,
\* the status of the write.
Inputs(load, local, gstatus, body, url404, wstatus, bstatus, bbody) ==
  [load |-> load, local |-> local, gstatus |-> gstatus, body |-> body,
   url404 |-> url404, wstatus |-> wstatus, bstatus |-> bstatus, bbody |-> bbody]

NoInputs == Inputs("none", << >>, 0, << >>, FALSE, 0, 0, << >>)

\* The age of an object that has no updatedAt.
NoAge == 0 - 1

Returned(status, calls) ==
  [status |-> status, raised |-> FALSE, flag |-> FALSE, calls |-> calls,
   fetch |-> "none", diff |-> "none", recent |-> FALSE, change |-> NoChange,
   local |-> EmptyDoc, remote |-> EmptyDoc, age |-> NoAge, doc |-> EmptyDoc,
   related |-> "none", inputs |-> NoInputs]

\* The result of a pass that read inputs.
Fed(inputs, r) == [r EXCEPT !.inputs = inputs]

\* The result of a pass on the file that held doc.
Loaded(doc, r) == [r EXCEPT !.doc = doc]

\* The result of a pass made while the related blueprint was as given.
Against(related, r) == [r EXCEPT !.related = related]

Failed(status, calls) == [Returned(status, calls) EXCEPT !.flag = TRUE]

Raised(calls) == [Returned("none", calls) EXCEPT !.raised = TRUE]

\* What a fetch that handed the caller None was: the object is not there
\* (404), the answer had no such key (200), or the fetch failed.
FetchOf(gstatus) ==
  IF gstatus = 404 THEN "notfound" ELSE IF gstatus = 200 THEN "nokey" ELSE "error"

Call(op, status, payload) == [op |-> op, status |-> status, payload |-> payload]

IsWrite(c) == c.op \in {"create", "update"}

Writes(calls) == {i \in DOMAIN calls : IsWrite(calls[i])}

----------------------------------------------------------------------------
(* api/client.py: PortAPIClient._make_request *)

\* The kind of result of one request, by status:
\*   "json"      the parsed body is returned
\*   "none"      None is returned (404 with ignore_404)
\*   "conflict"  PortAPIConflictError is raised
\*   "error"     PortAPIError is raised
make_request(status, ignore_404) ==
  IF ignore_404 /\ status = 404 THEN "none"
  ELSE IF status = 200 THEN "json"
  ELSE IF status = 409 THEN "conflict"
  ELSE "error"

\* Both exception classes are PortAPIError (PortAPIConflictError derives from it).
IsPortAPIError(kind) == kind \in {"conflict", "error"}

----------------------------------------------------------------------------
(* Integration mappings: core/mappings_service.py *)

\* Local mapping declarations (YAML).
MappingLocals ==
  { Doc(id \cup res \cup extra) :
      id    \in {{}, {<< <<"integrationIdentifier">>, 1 >>}},
      res   \in {{<< <<"resources", "service", "selector">>, v >>} : v \in {1, 2}},
      extra \in {{}, {<< <<"deleteDependentEntities">>, 1 >>}} }

\* Remote integration configs.
MappingRemotes ==
  { Doc(res \cup extra) :
      res   \in {{<< <<"resources", "service", "selector">>, 1 >>}},
      extra \in {{}, {<< <<"enableMergeEntity">>, 1 >>}} }

\* load_mapping_from_file: what process_mapping_file gets back, and whether
\* the loader set has_failures.  "raise" is an exception it does not catch.
load_mapping_from_file(load) ==
  CASE load \in {"invalid", "missing"} -> [value |-> "None", flag |-> TRUE]
    [] load = "unreadable"             -> [value |-> "raise", flag |-> FALSE]
    [] load = "null"                   -> [value |-> "None", flag |-> FALSE]
    [] load = "empty_dict"             -> [value |-> "empty", flag |-> FALSE]
    [] load = "list"                   -> [value |-> "list", flag |-> FALSE]
    [] OTHER                           -> [value |-> "dict", flag |-> FALSE]

\* A desired config made of the local declaration alone.
DesiredConfig_local_only(remote_config, local_config) ==
  Without(local_config, {"integrationIdentifier"})

\* desired_config = remote_config.copy(); .update(local_config); .pop(id)
DesiredConfig(remote_config, local_config) ==
  Without(Update(remote_config, local_config), {"integrationIdentifier"})

\* An update that is sent once more when it fails.
apply_mapping_update_retrying(config, wstatus) ==
  LET kind == make_request(wstatus, FALSE)
      call == <<Call("update", wstatus, config)>>
  IN  IF kind = "json" THEN Returned("updated", call)
      ELSE Failed("api_error", call \o call)

\* MappingService.apply_mapping_update
apply_mapping_update(config, wstatus) ==
  LET kind == make_request(wstatus, FALSE)
      call == <<Call("update", wstatus, config)>>
  IN  IF kind = "json" THEN Returned("updated", call) ELSE Failed("api_error", call)

\* process_mapping_file without its dry_run branch.
process_mapping_file_ignoring_dry_run(load, local_config, gstatus, remote_config, wstatus, dry_run, force) ==
  LET loaded  == load_mapping_from_file(load)
      get     == <<Call("get", gstatus, EmptyDoc)>>
      kind    == make_request(gstatus, TRUE)
      desired == DesiredConfig(remote_config, local_config)
      diff    == DeepDiff(remote_config, desired, {})
      change  == [action |-> "update", payload |-> desired]
      found   == [Returned("none", get) EXCEPT !.fetch = "found",
                    !.local = local_config, !.remote = remote_config]
      applied == apply_mapping_update(desired, wstatus)
  IN  IF loaded.value = "raise" THEN Raised(<< >>)
      ELSE IF loaded.value \in {"None", "empty"}
      THEN [Returned("file_error", << >>) EXCEPT !.flag = loaded.flag]
      ELSE IF loaded.value = "list" THEN Raised(<< >>)
      ELSE IF ~Truthy(local_config, "integrationIdentifier")
      THEN Failed("config_error", << >>)
      ELSE IF kind = "none"
      THEN [Failed("api_error", get) EXCEPT !.fetch = "notfound"]
      ELSE IF IsPortAPIError(kind)
      THEN [Failed("api_error", get) EXCEPT !.fetch = "error"]
      ELSE IF NoDiff(diff)
      THEN [found EXCEPT !.status = "no_changes", !.diff = "empty"]
      ELSE IF ~force
      THEN [found EXCEPT !.status = "confirmation_required", !.diff = "nonempty",
                         !.change = change]
      ELSE [found EXCEPT !.status = applied.status, !.flag = applied.flag,
                         !.calls = get \o applied.calls, !.diff = "nonempty"]

\* process_mapping_file asking for confirmation whatever force is.
process_mapping_file_ignoring_force(load, local_config, gstatus, remote_config, wstatus, dry_run, force) ==
  LET loaded  == load_mapping_from_file(load)
      get     == <<Call("get", gstatus, EmptyDoc)>>
      kind    == make_request(gstatus, TRUE)
      desired == DesiredConfig(remote_config, local_config)
      diff    == DeepDiff(remote_config, desired, {})
      change  == [action |-> "update", payload |-> desired]
      found   == [Returned("none", get) EXCEPT !.fetch = "found",
                    !.local = local_config, !.remote = remote_config]
  IN  IF loaded.value = "raise" THEN Raised(<< >>)
      ELSE IF loaded.value \in {"None", "empty"}
      THEN [Returned("file_error", << >>) EXCEPT !.flag = loaded.flag]
      ELSE IF loaded.value = "list"
      THEN Raised(<< >>)   \* local_config.get: AttributeError, outside any try
      ELSE IF ~Truthy(local_config, "integrationIdentifier")
      THEN Failed("config_error", << >>)
      ELSE IF kind = "none"
      THEN [Failed("api_error", get) EXCEPT !.fetch = "notfound"]
      ELSE IF IsPortAPIError(kind)
      THEN [Failed("api_error", get) EXCEPT !.fetch = "error"]
      ELSE IF NoDiff(diff)
      THEN [found EXCEPT !.status = "no_changes", !.diff = "empty"]
      ELSE IF dry_run
      THEN [found EXCEPT !.status = "dry_run", !.diff = "nonempty"]
      ELSE [found EXCEPT !.status = "confirmation_required", !.diff = "nonempty",
                         !.change = change]

process_mapping_file(load, local_config, gstatus, remote_config, wstatus, dry_run, force) ==
  LET loaded  == load_mapping_from_file(load)
      get     == <<Call("get", gstatus, EmptyDoc)>>
      kind    == make_request(gstatus, TRUE)
      desired == DesiredConfig(remote_config, local_config)
      diff    == DeepDiff(remote_config, desired, {})
      change  == [action |-> "update", payload |-> desired]
      found   == [Returned("none", get) EXCEPT !.fetch = "found",
                    !.local = local_config, !.remote = remote_config]
      applied == apply_mapping_update(desired, wstatus)
  IN  IF loaded.value = "raise" THEN Raised(<< >>)
      ELSE IF loaded.value \in {"None", "empty"}
      THEN [Returned("file_error", << >>) EXCEPT !.flag = loaded.flag]
      ELSE IF loaded.value = "list"
      THEN Raised(<< >>)   \* local_config.get: AttributeError, outside any try
      ELSE IF ~Truthy(local_config, "integrationIdentifier")
      THEN Failed("config_error", << >>)
      ELSE IF kind = "none"
      THEN [Failed("api_error", get) EXCEPT !.fetch = "notfound"]
      ELSE IF IsPortAPIError(kind)
      THEN [Failed("api_error", get) EXCEPT !.fetch = "error"]
      ELSE IF NoDiff(diff)
      THEN [found EXCEPT !.status = "no_changes", !.diff = "empty"]
      ELSE IF dry_run
      THEN [found EXCEPT !.status = "dry_run", !.diff = "nonempty"]
      ELSE IF ~force
      THEN [found EXCEPT !.status = "confirmation_required", !.diff = "nonempty",
                         !.change = change]
      ELSE [found EXCEPT !.status = applied.status, !.flag = applied.flag,
                         !.calls = get \o applied.calls, !.diff = "nonempty"]

----------------------------------------------------------------------------
(* Blueprints: the documents *)

\* Seconds of the protection window (time_difference.total_seconds() < 86400).
ProtectionWindow == 86400

\* The exclude_paths of the comparison, the top-level keys update removes.
TopLevelMeta == {"createdAt", "updatedAt", "createdBy", "updatedBy"}

\* schema_properties_to_remove.
ReservedProperties == {"createdAt", "updatedAt", "createdBy", "updatedBy",
                       "resolvedAt", "statusChangedAt"}

\* {k: d}
Wrap(k, d) == [p \in {<<k>> \o q : q \in DOMAIN d} |-> d[Tail(p)]]

\* The part every blueprint below has: "required" is a sequence.
Required == {<< <<"schema", "required", "#">>, 0 >>,
             << <<"schema", "required", "#", "name">>, 1 >>}

\* A relation "owner" whose target is the blueprint 2.
Relation == << <<"relations", "owner", "target">>, 2 >>

BlueprintCore ==
  {<< <<"identifier">>, 1 >>, << <<"schema", "properties", "name">>, 1 >>}

\* Local blueprint declarations (JSON): title 1 or 2, with or without a
\* top-level createdAt and a schema property named createdAt; one with a
\* relation; one whose
\* title is the string "1"; one with one more and one with one less element
\* in "required"; one without title, with another value of the property and
\* one more property; one without identifier.
LocalBlueprints ==
  { Doc(BlueprintCore \cup Required \cup {<< <<"title">>, t >>} \cup meta \cup prop) :
      t    \in {1, 2},
      meta \in {{}, {<< <<"createdAt">>, 1 >>}},
      prop \in {{}, {<< <<"schema", "properties", "createdAt">>, 1 >>}} }
  \cup {Doc(BlueprintCore \cup Required \cup {<< <<"title">>, 0 - 1 >>}),
        Doc(BlueprintCore \cup Required \cup {<< <<"title">>, 1 >>,
                                              << <<"schema", "required", "#", "team">>, 1 >>}),
        Doc(BlueprintCore \cup {<< <<"title">>, 1 >>, << <<"schema", "required", "#">>, 0 >>}),
        Doc(Required \cup {<< <<"identifier">>, 1 >>,
                           << <<"schema", "properties", "name">>, 2 >>,
                           << <<"schema", "properties", "createdAt">>, 1 >>}),
        Doc(BlueprintCore \cup Required \cup {<< <<"title">>, 1 >>, Relation}),
        Doc({<< <<"title">>, 1 >>, << <<"schema", "properties", "name">>, 1 >>})}

RemoteCore ==
  BlueprintCore \cup Required \cup {<< <<"title">>, 1 >>, << <<"createdAt">>, 2 >>}

\* updatedAt is held as the age of the update, now - updatedAt, in seconds.
\* 23 h 59 min, 24 h, 24 h 1 min.
Ages == {86340, 86400, 86460}

\* The object a blueprint GET answers under its "blueprint" key: the
\* blueprint, with or without updatedAt, with or without a "blueprint" key
\* of its own.
RemoteBlueprints ==
  { Doc(RemoteCore \cup upd \cup inner) :
      upd   \in {{}} \cup {{<< <<"updatedAt">>, a >>} : a \in Ages},
      inner \in {{}, {<< <<"blueprint">> \o x[1], x[2] >> : x \in RemoteCore}} }

\* The JSON body of a 200 answer to GET blueprints/<id>: the object under
\* the key the client reads (key), or under another key.
GetBodies(key) ==
  {Wrap(key, b) : b \in RemoteBlueprints} \cup {Wrap("other", Doc(RemoteCore))}

\* blueprint_metadata.get('updatedAt'), as seconds before now.
AgeOf(meta) == IF <<"updatedAt">> \in DOMAIN meta THEN meta[<<"updatedAt">>] ELSE NoAge

\* The remote object was updated less than ProtectionWindow seconds ago.
WithinWindow(meta) ==
  <<"updatedAt">> \in DOMAIN meta /\ meta[<<"updatedAt">>] < ProtectionWindow

----------------------------------------------------------------------------
(* Blueprints: core/services.py with api/endpoints/blueprints.py *)

\* "404" in str(e): the message of the error holds the status and the URL.
Mentions404(status, url404) == status = 404 \/ url404

\* BlueprintClient.get_blueprint: the "blueprint" key of the body, None
\* (EmptyDoc) when the error mentions 404, else the error is raised again.
get_blueprint(status, body, url404) ==
  LET kind == make_request(status, FALSE)
  IN  IF kind = "json" THEN [raised |-> FALSE, value |-> Sub(body, "blueprint")]
      ELSE IF Mentions404(status, url404) THEN [raised |-> FALSE, value |-> EmptyDoc]
      ELSE [raised |-> TRUE, value |-> EmptyDoc]

\* BlueprintClient._prepare_update_payload
prepare_update_payload(blueprint_data) ==
  LET reserved(p) == /\ Len(p) >= 3
                     /\ p[1] = "schema"
                     /\ p[2] = "properties"
                     /\ p[3] \in ReservedProperties
      kept == {p \in DOMAIN blueprint_data : p[1] \notin TopLevelMeta /\ ~reserved(p)}
  IN  [p \in kept |-> blueprint_data[p]]

\* BlueprintService.format_diff_for_display: the dict it builds has the
\* values_changed, dictionary_item_added and dictionary_item_removed of the
\* diff and nothing else.
format_diff_for_display(diff) ==
  [diff EXCEPT !.type_changes = {}, !.iterable_item_added = {},
               !.iterable_item_removed = {}]

\* BlueprintService.compare_blueprints: None when the DeepDiff (root['createdAt']
\* ... root['updatedBy'] excluded) or the dict made from it is empty.
compare_blueprints(local_blueprint, remote_blueprint) ==
  format_diff_for_display(DeepDiff(remote_blueprint, local_blueprint, TopLevelMeta))

\* check_recent_update taking an object without updatedAt as recently updated.
check_recent_update_unknown_is_recent(blueprint_metadata, force_update) ==
  IF force_update THEN TRUE
  ELSE IF <<"updatedAt">> \notin DOMAIN blueprint_metadata THEN FALSE
  ELSE IF blueprint_metadata[<<"updatedAt">>] < ProtectionWindow THEN FALSE
  ELSE TRUE

\* check_recent_update without its force branch.
check_recent_update_ignoring_force(blueprint_metadata, force_update) ==
  IF <<"updatedAt">> \notin DOMAIN blueprint_metadata THEN TRUE
  ELSE IF blueprint_metadata[<<"updatedAt">>] < ProtectionWindow THEN FALSE
  ELSE TRUE

\* check_recent_update with a window that includes its end.
check_recent_update_inclusive(blueprint_metadata, force_update) ==
  IF force_update THEN TRUE
  ELSE IF <<"updatedAt">> \notin DOMAIN blueprint_metadata THEN TRUE
  ELSE IF blueprint_metadata[<<"updatedAt">>] <= ProtectionWindow THEN FALSE
  ELSE TRUE

\* BlueprintService.check_recent_update: TRUE if safe to update.
check_recent_update(blueprint_metadata, force_update) ==
  IF force_update THEN TRUE
  ELSE IF <<"updatedAt">> \notin DOMAIN blueprint_metadata THEN TRUE
  ELSE IF blueprint_metadata[<<"updatedAt">>] < ProtectionWindow THEN FALSE
  ELSE TRUE

\* The update branch with a fallback to create when the update is answered 404.
blueprint_update_falling_back(local_blueprint_data, wstatus) ==
  LET kind == make_request(wstatus, FALSE)
      call == <<Call("update", wstatus, prepare_update_payload(local_blueprint_data))>>
  IN  IF kind = "json" THEN Returned("updated", call)
      ELSE IF wstatus = 404
      THEN Returned("created", call \o <<Call("create", 200, local_blueprint_data)>>)
      ELSE Failed("api_error", call)

\* process_blueprint_file, the update branch from client.update_blueprint on.
blueprint_update(local_blueprint_data, wstatus) ==
  LET kind == make_request(wstatus, FALSE)
      call == <<Call("update", wstatus, prepare_update_payload(local_blueprint_data))>>
  IN  IF kind = "json" THEN Returned("updated", call) ELSE Failed("api_error", call)

\* A create that sends what an update sends: the declaration less its
\* server-managed fields.
blueprint_create_stripping(local_blueprint_data, wstatus) ==
  LET kind == make_request(wstatus, FALSE)
      call == <<Call("create", wstatus, prepare_update_payload(local_blueprint_data))>>
  IN  IF kind = "json" THEN Returned("created", call)
      ELSE IF kind = "conflict" THEN Failed("conflict", call)
      ELSE Failed("api_error", call)

\* process_blueprint_file, the create branch.
blueprint_create(local_blueprint_data, wstatus) ==
  LET kind == make_request(wstatus, FALSE)
      call == <<Call("create", wstatus, local_blueprint_data)>>
  IN  IF kind = "json" THEN Returned("created", call)
      ELSE IF kind = "conflict" THEN Failed("conflict", call)
      ELSE Failed("api_error", call)

\* BlueprintService.load_blueprint_from_file
load_blueprint_from_file(load) ==
  CASE load \in {"invalid", "missing"} -> [value |-> "None", flag |-> TRUE]
    [] load = "unreadable"             -> [value |-> "raise", flag |-> FALSE]
    [] load = "null"                   -> [value |-> "None", flag |-> FALSE]
    [] load = "empty_dict"             -> [value |-> "empty", flag |-> FALSE]
    [] load = "list"                   -> [value |-> "list", flag |-> FALSE]
    [] OTHER                           -> [value |-> "dict", flag |-> FALSE]

\* BlueprintService.process_blueprint_file up to input(); status "input"
\* is the call blocked in input().
process_blueprint_file(load, local, gstatus, body, url404, wstatus, force_update, skip_confirmation) ==
  LET loaded == load_blueprint_from_file(load)
      got    == get_blueprint(gstatus, body, url404)
      get    == <<Call("get", gstatus, EmptyDoc)>>
      remote == got.value
      diff   == compare_blueprints(local, Sub(remote, "blueprint"))
      kind   == DiffKind(DeepDiff(Sub(remote, "blueprint"), local, TopLevelMeta), diff)
      found  == [Returned("none", get) EXCEPT
                   !.fetch = "found", !.recent = WithinWindow(remote), !.age = AgeOf(remote), !.local = local,
                   !.remote = IF HasKey(remote, "blueprint") THEN Sub(remote, "blueprint")
                              ELSE remote]
      update == blueprint_update(local, wstatus)
      create == blueprint_create(local, wstatus)
  IN  IF loaded.value = "raise" THEN Raised(<< >>)
      ELSE IF loaded.value \in {"None", "empty"} THEN Failed("file_error", << >>)
      ELSE IF loaded.value = "list"
      THEN Raised(<< >>)   \* local_blueprint_data.get: AttributeError, before the try
      ELSE IF ~Truthy(local, "identifier") THEN Failed("config_error", << >>)
      ELSE IF got.raised
      THEN [Failed("api_error", get) EXCEPT !.fetch = "error"]
      ELSE IF remote # EmptyDoc
      THEN IF ~HasKey(remote, "blueprint")
           THEN \* remote_blueprint["blueprint"]: KeyError, except Exception
                [found EXCEPT !.status = "unexpected_error", !.flag = TRUE,
                              !.diff = DiffKind(DeepDiff(remote, local, TopLevelMeta),
                                                DeepDiff(remote, local, TopLevelMeta))]
           ELSE IF NoDiff(diff)
           THEN [found EXCEPT !.status = "no_changes", !.diff = kind]
           ELSE IF ~check_recent_update(remote, force_update) /\ ~skip_confirmation
           THEN [found EXCEPT !.status = "input", !.diff = "nonempty",
                              !.change = [action |-> "update", payload |-> local]]
           ELSE [found EXCEPT !.status = update.status, !.flag = update.flag,
                              !.calls = get \o update.calls, !.diff = "nonempty"]
      ELSE [create EXCEPT !.calls = get \o create.calls,
                          !.fetch = FetchOf(gstatus)]

\* An answer step that records a declined update as a failure.
process_blueprint_file_answer_failing(answer, local, wstatus) ==
  IF answer # "y" THEN Failed("cancelled", << >>)
  ELSE blueprint_update(local, wstatus)

\* process_blueprint_file from the answer to input() on.
process_blueprint_file_answer(answer, local, wstatus) ==
  IF answer # "y" THEN Returned("cancelled", << >>)
  ELSE blueprint_update(local, wstatus)

----------------------------------------------------------------------------
(* The first blueprint script: src/main.py *)

\* PortAPIClient.get_blueprint of main.py: None (EmptyDoc) on 404 and on
\* every RequestException.
main_get_blueprint(status, body) ==
  IF status = 200 THEN Sub(body, "blueprint") ELSE EmptyDoc

\* PortAPIClient.update_blueprint of main.py: the payload it sends.
main_update_payload(blueprint_data) ==
  LET reserved(p) == /\ Len(p) >= 3
                     /\ p[1] = "schema"
                     /\ p[2] = "properties"
                     /\ p[3] \in ReservedProperties
      kept == {p \in DOMAIN blueprint_data : p[1] \notin TopLevelMeta /\ ~reserved(p)}
  IN  [p \in kept |-> blueprint_data[p]]

\* format_diff_for_display of main.py keeps the same three categories.
main_format_diff_for_display(diff) ==
  [diff EXCEPT !.type_changes = {}, !.iterable_item_added = {},
               !.iterable_item_removed = {}]

\* compare_blueprints of main.py returns None on an empty DeepDiff, else
\* the formatted dict.
main_compare_blueprints(local_blueprint, remote_blueprint) ==
  main_format_diff_for_display(DeepDiff(remote_blueprint, local_blueprint, TopLevelMeta))

main_check_recent_update(blueprint_metadata, force_update) ==
  IF force_update THEN TRUE
  ELSE IF <<"updatedAt">> \notin DOMAIN blueprint_metadata THEN TRUE
  ELSE IF blueprint_metadata[<<"updatedAt">>] < ProtectionWindow THEN FALSE
  ELSE TRUE

\* update_blueprint / create_blueprint of main.py catch every
\* RequestException and print it; nothing is returned or recorded.
main_update(local, wstatus) ==
  Returned(IF wstatus = 200 THEN "updated" ELSE "api_error",
           <<Call("update", wstatus, main_update_payload(local))>>)

main_create(local, wstatus) ==
  Returned(IF wstatus = 200 THEN "created" ELSE "api_error",
           <<Call("create", wstatus, local)>>)

\* What json.load and .get('identifier') do to a file, in both scripts:
\* only JSONDecodeError is caught.
script_load(load) ==
  CASE load = "invalid"                         -> "skip"
    [] load \in {"missing", "unreadable"}       -> "raise"
    [] load \in {"null", "list"}                -> "raise"
    [] OTHER                                    -> "dict"

\* process_blueprint_file of main.py up to input().
main_process_blueprint_file(load, local, gstatus, body, wstatus, force_update) ==
  LET remote == main_get_blueprint(gstatus, body)
      get    == <<Call("get", gstatus, EmptyDoc)>>
      diff   == main_compare_blueprints(local, remote)
      kind   == DiffKind(DeepDiff(remote, local, TopLevelMeta), diff)
      found  == [Returned("none", get) EXCEPT
                   !.fetch = "found", !.recent = WithinWindow(remote), !.age = AgeOf(remote),
                   !.local = local, !.remote = remote]
      update == main_update(local, wstatus)
      create == main_create(local, wstatus)
  IN  IF script_load(load) = "raise" THEN Raised(<< >>)
      ELSE IF script_load(load) = "skip" THEN Returned("file_error", << >>)
      ELSE IF load = "empty_dict" \/ ~Truthy(local, "identifier")
      THEN Returned("config_error", << >>)
      ELSE IF remote # EmptyDoc
      THEN IF NoDiff(diff)
           THEN [found EXCEPT !.status = "no_changes", !.diff = kind]
           ELSE IF ~main_check_recent_update(remote, force_update)
           THEN [found EXCEPT !.status = "input", !.diff = "nonempty",
                              !.change = [action |-> "update", payload |-> local]]
           ELSE [found EXCEPT !.status = update.status,
                              !.calls = get \o update.calls, !.diff = "nonempty"]
      ELSE [create EXCEPT !.calls = get \o create.calls, !.fetch = FetchOf(gstatus)]

\* process_blueprint_file of main.py from the answer to input() on.
main_process_blueprint_file_answer(answer, local, wstatus) ==
  IF answer # "s" THEN Returned("cancelled", << >>)
  ELSE main_update(local, wstatus)

----------------------------------------------------------------------------
(* The second blueprint script: cli.py with client.py, comparator.py, utils.py *)

\* PortAPIClient.get_resource: the "resource" key of the body, None on
\* every RequestException (raise_for_status included).
get_resource(status, body) ==
  IF status = 200 THEN Sub(body, "resource") ELSE EmptyDoc

\* PortAPIClient.update_resource sends resource_data as it is.
update_resource(resource_data, wstatus) ==
  Returned(IF wstatus = 200 THEN "updated" ELSE "api_error",
           <<Call("update", wstatus, resource_data)>>)

create_resource(resource_data, wstatus) ==
  Returned(IF wstatus = 200 THEN "created" ELSE "api_error",
           <<Call("create", wstatus, resource_data)>>)

\* format_diff_for_display of comparator.py: values_changed,
\* items_added_locally (dictionary_item_added) and items_removed_locally
\* (dictionary_item_removed).
comparator_format_diff_for_display(diff) ==
  [diff EXCEPT !.type_changes = {}, !.iterable_item_added = {},
               !.iterable_item_removed = {}]

\* BlueprintComparator.compare
comparator_compare(local_blueprint, remote_blueprint) ==
  DeepDiff(remote_blueprint, local_blueprint, TopLevelMeta)

\* One pass of the loop of cli.py's main.
cli_process_file(load, local, gstatus, body, wstatus, force) ==
  LET remote == get_resource(gstatus, body)
      get    == <<Call("get", gstatus, EmptyDoc)>>
      diff   == comparator_compare(local, remote)
      found  == [Returned("none", get) EXCEPT
                   !.fetch = "found", !.recent = WithinWindow(remote), !.age = AgeOf(remote),
                   !.local = local, !.remote = remote]
      update == update_resource(local, wstatus)
      create == create_resource(local, wstatus)
  IN  IF script_load(load) = "raise" THEN Raised(<< >>)
      ELSE IF script_load(load) = "skip" THEN Returned("file_error", << >>)
      ELSE IF load = "empty_dict" \/ ~Truthy(local, "identifier")
      THEN Returned("config_error", << >>)
      ELSE IF remote # EmptyDoc
      THEN IF NoDiff(diff)
           THEN \* compare returns None; sanitize_diff(None): TypeError
                [found EXCEPT !.raised = TRUE, !.diff = "empty"]
           ELSE IF ~force
           THEN \* client.check_recent_update: PortAPIClient has no such
                \* attribute, AttributeError
                [found EXCEPT !.raised = TRUE, !.diff = "nonempty"]
           ELSE [found EXCEPT !.status = update.status,
                              !.calls = get \o update.calls, !.diff = "nonempty"]
      ELSE [create EXCEPT !.calls = get \o create.calls, !.fetch = FetchOf(gstatus)]

----------------------------------------------------------------------------
(* Scorecards: core/scorecards_service.py with api/endpoints/scorecards.py *)

\* The property a rule condition names, as a number: 1 is "name" (a
\* property of the remote blueprints above), 2 is "ghost" (no blueprint has
\* it), 3 is "$team" (a meta property, its name starts with '$').
PropertyKey(v) == CASE v = 1 -> "name" [] v = 2 -> "ghost" [] OTHER -> "$team"

StartsWithDollar(v) == v = 3

RulePath == <<"rules", "0", "query", "conditions", "0", "property">>

\* Local scorecard files: {"blueprintIdentifier": ..., "scorecard": {...}}.
LocalScorecards ==
  { Doc({<< <<"blueprintIdentifier">>, 1 >>, << <<"scorecard", "identifier">>, 1 >>,
         << <<"scorecard", "title">>, t >>} \cup rule) :
      t    \in {1, 2},
      rule \in {{}} \cup {{<< <<"scorecard">> \o RulePath, v >>} : v \in {1, 2, 3}} }
  \cup {Doc({<< <<"scorecard", "identifier">>, 1 >>, << <<"scorecard", "title">>, 1 >>}),
        Doc({<< <<"blueprintIdentifier">>, 1 >>}),
        Doc({<< <<"blueprintIdentifier">>, 1 >>, << <<"scorecard", "title">>, 1 >>})}

\* The JSON body of a 200 answer to GET blueprints/<b>/scorecards/<s>.
ScorecardBodies ==
  {Wrap("scorecard", Doc({<< <<"identifier">>, 1 >>, << <<"title">>, 1 >>} \cup extra)) :
     extra \in {{}, {<< <<"createdAt">>, 2 >>}}}
  \cup {Wrap("other", Doc({<< <<"identifier">>, 1 >>}))}

\* The blueprint GET bodies the validation is run against.
ValidationBodies ==
  {b \in GetBodies("blueprint") : <<"blueprint", "updatedAt">> \notin DOMAIN b}

\* ScorecardService._load_scorecard_file
load_scorecard_file(load) ==
  CASE load \in {"invalid", "missing"} -> [value |-> "None", flag |-> TRUE]
    [] load = "unreadable"             -> [value |-> "raise", flag |-> FALSE]
    [] load \in {"null", "list"}       -> [value |-> "None", flag |-> FALSE]
    [] load = "empty_dict"             -> [value |-> "empty", flag |-> FALSE]
    [] OTHER                           -> [value |-> "dict", flag |-> FALSE]

\* A validation that looks for the blueprint and not at the rules.
validate_scorecard_properties_of_blueprint_only(bstatus, bbody, url404, scorecard) ==
  LET blueprint_wrapper == get_blueprint(bstatus, bbody, url404)
  IN  ~blueprint_wrapper.raised /\ blueprint_wrapper.value # EmptyDoc

\* ScorecardService._validate_scorecard_properties
validate_scorecard_properties(bstatus, bbody, url404, scorecard) ==
  LET blueprint_wrapper == get_blueprint(bstatus, bbody, url404)
      blueprint_properties ==
        TopKeys(Sub(Sub(Sub(blueprint_wrapper.value, "blueprint"), "schema"), "properties"))
      prop == scorecard[RulePath]
  IN  IF blueprint_wrapper.raised THEN FALSE
      ELSE IF blueprint_wrapper.value = EmptyDoc THEN FALSE
      ELSE IF RulePath \notin DOMAIN scorecard THEN TRUE
      ELSE StartsWithDollar(prop) \/ PropertyKey(prop) \in blueprint_properties

\* ScorecardClient.get_scorecard, then .get("scorecard") on what it returns.
get_scorecard(gstatus, sbody) ==
  LET kind == make_request(gstatus, TRUE)
  IN  IF IsPortAPIError(kind) THEN [raised |-> TRUE, value |-> EmptyDoc]
      ELSE IF kind = "none" THEN [raised |-> FALSE, value |-> EmptyDoc]
      ELSE [raised |-> FALSE, value |-> Sub(sbody, "scorecard")]

\* The remote scorecard compared whole, its remote-only keys included.
NormalizedRemote_whole(remote_scorecard, local_scorecard) == remote_scorecard

\* {key: remote_scorecard.get(key) for key in local_scorecard.keys()}
NormalizedRemote(remote_scorecard, local_scorecard) ==
  [p \in {x \in DOMAIN remote_scorecard : x[1] \in TopKeys(local_scorecard)} |->
     remote_scorecard[p]]

\* ScorecardService.apply_scorecard_change
apply_scorecard_change(change_data, wstatus) ==
  LET kind == make_request(wstatus, FALSE)
      call == <<Call(change_data.action, wstatus, change_data.payload)>>
  IN  IF change_data.action \notin {"update", "create"}
      THEN Failed("internal_error", << >>)
      ELSE IF IsPortAPIError(kind) THEN Failed("api_error", call)
      ELSE Returned(IF change_data.action = "update" THEN "updated" ELSE "created", call)

\* ScorecardService.process_scorecard_file
process_scorecard_file(load, wrapper, bstatus, bbody, url404, gstatus, sbody, wstatus, dry_run, force) ==
  LET loaded   == load_scorecard_file(load)
      local_scorecard == Sub(wrapper, "scorecard")
      validate == <<Call("get_blueprint", bstatus, EmptyDoc)>>
      got      == get_scorecard(gstatus, sbody)
      gets     == validate \o <<Call("get", gstatus, EmptyDoc)>>
      remote_scorecard == got.value
      diff     == DeepDiff(NormalizedRemote(remote_scorecard, local_scorecard),
                           local_scorecard, {})
      action   == IF remote_scorecard # EmptyDoc THEN "update" ELSE "create"
      change_data == [action |-> action, payload |-> local_scorecard]
      applied  == apply_scorecard_change(change_data, wstatus)
      fetched  == [Returned("none", gets) EXCEPT
                     !.local = local_scorecard, !.remote = remote_scorecard,
                     !.fetch = IF remote_scorecard # EmptyDoc THEN "found"
                               ELSE FetchOf(gstatus),
                     !.diff = IF remote_scorecard = EmptyDoc THEN "none"
                              ELSE IF NoDiff(diff) THEN "empty" ELSE "nonempty"]
  IN  IF loaded.value = "raise" THEN Raised(<< >>)
      ELSE IF loaded.value \in {"None", "empty"} THEN Failed("file_error", << >>)
      ELSE IF ~Truthy(wrapper, "blueprintIdentifier") \/ local_scorecard = EmptyDoc
      THEN Failed("config_error", << >>)
      ELSE IF ~Truthy(local_scorecard, "identifier") THEN Failed("config_error", << >>)
      ELSE IF ~validate_scorecard_properties(bstatus, bbody, url404, local_scorecard)
      THEN Failed("validation_error", validate)
      ELSE IF got.raised
      THEN [Failed("api_error", gets) EXCEPT !.fetch = "error"]
      ELSE IF remote_scorecard # EmptyDoc /\ NoDiff(diff)
      THEN [fetched EXCEPT !.status = "no_changes"]
      ELSE IF dry_run THEN [fetched EXCEPT !.status = "dry_run"]
      ELSE IF ~force
      THEN [fetched EXCEPT !.status = "confirmation_required", !.change = change_data]
      ELSE [fetched EXCEPT !.status = applied.status, !.flag = applied.flag,
                           !.calls = gets \o applied.calls]

----------------------------------------------------------------------------
(* State *)

VARIABLES
  entry,         \* the program that runs
  args,          \* its command-line flags / call arguments
  pc,            \* "start", "loop" (at the for statement), "file" (in a pass),
                 \* "prompt" (blocked in input()), "done"
  idx,           \* index of the declaration being reconciled
  has_failures,  \* service.has_failures
  exit_code,     \* the process's exit code, Running before it exits
  outcome,       \* outcome[i]: the final status of declaration i, "none" before
  cur,           \* what happened to the declaration reconciled last
  session,       \* how the construction of the API client went: "none" before,
                 \* "missing_credentials", "auth_failed", "ok"
  input_paths,   \* the paths given to --files, split at the commas
  json_files     \* the list of files process_input_paths returned

vars == <<entry, args, pc, idx, has_failures, exit_code, outcome, cur, session,
          input_paths, json_files>>

\* "blueprint_service" is BlueprintService driven by a caller that builds
\* BlueprintClient(client_id, client_secret) as its constructor asks and
\* calls process_blueprint_file(file_path, force_update, skip_confirmation)
\* for each file; "sync_blueprint" is the command as it is written.
\* "scorecard_service" is the loop of sync_scorecard_command over a
\* ScorecardService whose BlueprintClient was built as its constructor
\* asks; "sync_scorecard" is the command as it is written.
Entries == {"main", "cli", "sync_blueprint", "blueprint_service", "sync_mapping",
            "sync_scorecard", "scorecard_service"}

NoArgs == [force |-> FALSE, dry_run |-> FALSE, no_prompt |-> FALSE,
           skip_confirmation |-> FALSE]

\* The flags each program's argument parser (or signature) knows.
ArgsOf(e) ==
  CASE e \in {"main", "cli"} ->
         {[NoArgs EXCEPT !.force = f] : f \in BOOLEAN}
    [] e = "sync_blueprint" ->
         {[NoArgs EXCEPT !.force = f, !.dry_run = d, !.no_prompt = n] :
            f \in BOOLEAN, d \in BOOLEAN, n \in BOOLEAN}
    [] e = "blueprint_service" ->
         {[NoArgs EXCEPT !.force = f, !.skip_confirmation = k] :
            f \in BOOLEAN, k \in BOOLEAN}
    [] e \in {"sync_mapping", "sync_scorecard", "scorecard_service"} ->
         {[NoArgs EXCEPT !.dry_run = d, !.no_prompt = n] : d \in BOOLEAN, n \in BOOLEAN}
    [] OTHER -> {NoArgs}

NoCur == [file |-> 0, load |-> "none", fetch |-> "none", diff |-> "none",
          recent |-> FALSE, calls |-> << >>, change |-> NoChange, answer |-> "none",
          local |-> EmptyDoc, remote |-> EmptyDoc, age |-> NoAge, doc |-> EmptyDoc,
   related |-> "none", inputs |-> NoInputs]

Init ==
  /\ entry \in Entries
  /\ args \in ArgsOf(entry)
  /\ pc = "start"
  /\ idx = 1
  /\ has_failures = FALSE
  /\ exit_code = Running
  /\ outcome = [i \in Files |-> "none"]
  /\ cur = NoCur
  /\ session = "none"
  /\ input_paths = << >>
  /\ json_files = << >>

Exit(code) ==
  /\ pc' = "done"
  /\ exit_code' = code

\* A construction that goes on when the authentication request fails.
startup_exit_code_ignoring_auth(creds, auth) == IF ~creds THEN 1 ELSE Running

\* PortAPIClient construction: sys.exit(1) without client id or secret and
\* when the authentication request fails; Running when it returns.
startup_exit_code(creds, auth) == IF ~creds \/ ~auth THEN 1 ELSE Running

\* Credentials check and client construction, up to the loop over the files.
Startup ==
  /\ pc = "start"
  /\ \E creds \in BOOLEAN, auth \in BOOLEAN :
       /\ session' = IF ~creds THEN "missing_credentials"
                     ELSE IF ~auth THEN "auth_failed" ELSE "ok"
       /\ IF startup_exit_code(creds, auth) # Running
          THEN Exit(startup_exit_code(creds, auth))
          ELSE IF entry \in {"sync_blueprint", "sync_scorecard"}
          THEN \* BlueprintClient(api_client): __init__ wants client_id and
               \* client_secret, TypeError, except Exception: sys.exit(1)
               Exit(1)
          ELSE /\ pc' = "loop"
               /\ exit_code' = exit_code
  /\ UNCHANGED <<entry, args, idx, has_failures, outcome, cur, input_paths, json_files>>

\* A loop that takes any file of the batch next.
NextFile_any_file ==
  /\ pc = "loop"
  /\ idx \in Files
  /\ \E j \in Files :
       /\ idx' = j
       /\ cur' = [NoCur EXCEPT !.file = j]
  /\ pc' = "file"
  /\ UNCHANGED <<entry, args, has_failures, exit_code, outcome, session, input_paths, json_files>>

\* The for statement takes the next file.
NextFile ==
  /\ pc = "loop"
  /\ idx \in Files
  /\ pc' = "file"
  /\ cur' = [NoCur EXCEPT !.file = idx]
  /\ UNCHANGED <<entry, args, idx, has_failures, exit_code, outcome, session, input_paths, json_files>>

\* The record of one handler call on declaration idx.
Observed(load, r) ==
  [file |-> idx, load |-> load, fetch |-> r.fetch, diff |-> r.diff,
   recent |-> r.recent, calls |-> r.calls, change |-> r.change, answer |-> "none",
   local |-> r.local, remote |-> r.remote, age |-> r.age, doc |-> r.doc,
   related |-> r.related, inputs |-> r.inputs]

\* An exception leaves the loop: except Exception: sys.exit(1) in a
\* command, a traceback and exit code 1 in a script.
Abort(load, r) ==
  /\ Exit(1)
  /\ cur' = Observed(load, r)
  /\ has_failures' = (has_failures \/ r.flag)
  /\ UNCHANGED <<entry, args, idx, outcome, session, input_paths, json_files>>

\* A loop that passes over a declaration once a failure has been recorded.
Settle_skipping_after_failure(load, r) ==
  /\ outcome' = [outcome EXCEPT ![idx] = IF has_failures THEN "skipped" ELSE r.status]
  /\ cur' = Observed(load, r)
  /\ has_failures' = (has_failures \/ r.flag)
  /\ idx' = idx + 1
  /\ pc' = "loop"
  /\ UNCHANGED <<entry, args, exit_code, session, input_paths, json_files>>

\* The declaration is settled; the loop goes on with the next one.
Settle(load, r) ==
  /\ outcome' = [outcome EXCEPT ![idx] = r.status]
  /\ cur' = Observed(load, r)
  /\ has_failures' = (has_failures \/ r.flag)
  /\ idx' = idx + 1
  /\ pc' = "loop"
  /\ UNCHANGED <<entry, args, exit_code, session, input_paths, json_files>>

\* The process blocks in input().
Block(load, r) ==
  /\ pc' = "prompt"
  /\ outcome' = [outcome EXCEPT ![idx] = r.status]
  /\ cur' = Observed(load, r)
  /\ has_failures' = (has_failures \/ r.flag)
  /\ UNCHANGED <<entry, args, idx, exit_code, session, input_paths, json_files>>

\* The pass goes on after input() with the handler result r.
Resume(answer, r) ==
  /\ outcome' = [outcome EXCEPT ![idx] = r.status]
  /\ cur' = [cur EXCEPT !.calls = cur.calls \o r.calls, !.answer = answer]
  /\ has_failures' = (has_failures \/ r.flag)
  /\ idx' = idx + 1
  /\ pc' = "loop"
  /\ UNCHANGED <<entry, args, exit_code, session, input_paths, json_files>>

\* The inputs a pass reads: the file; the fetch, if the file gave an
\* identifier; the body, if the fetch was answered 200; the answer to a
\* write, if the pass writes.
LocalsOf(load, locals) == IF load = "ok" THEN locals ELSE {EmptyDoc}

GetStatusesOf(local, key) == IF Truthy(local, key) THEN GetStatuses ELSE {200}

BodiesOf(gstatus, bodies) == IF gstatus = 200 THEN bodies ELSE {EmptyDoc}

Url404Of(gstatus) == IF gstatus \in {200, 404} THEN {FALSE} ELSE BOOLEAN

WriteStatusesOf(r) == IF Writes(r.calls) = {} THEN {200} ELSE WriteStatuses

\* Whether the target of the declaration's relation exists remotely.
RelatedOf(local) ==
  IF HasKey(local, "relations") THEN {"exists", "missing"} ELSE {"none"}

\* The service answers a write that names a missing related blueprint 404.
AnswersTo(related, statuses) ==
  IF related = "missing" /\ 404 \in statuses THEN {404} ELSE statuses

\* sync_mapping_command, one pass of the loop up to input().
SyncMappingFile ==
  /\ entry = "sync_mapping"
  /\ pc = "file"
  /\ \E load \in LoadKinds :
     \E local_config \in LocalsOf(load, MappingLocals) :
     \E gstatus \in GetStatusesOf(local_config, "integrationIdentifier") :
     \E remote_config \in BodiesOf(gstatus, MappingRemotes) :
     \E wstatus \in WriteStatusesOf(process_mapping_file(load, local_config, gstatus,
                       remote_config, 200, args.dry_run, args.no_prompt)) :
       LET r == Fed(Inputs(load, local_config, gstatus, remote_config, FALSE, wstatus,
                           0, EmptyDoc),
                    Loaded(local_config,
                       process_mapping_file(load, local_config, gstatus, remote_config,
                                            wstatus, args.dry_run, args.no_prompt)))
       IN  IF r.raised THEN Abort(load, r)
           ELSE IF r.status = "confirmation_required" /\ ~args.no_prompt
           THEN Block(load, r)
           ELSE Settle(load, r)

\* sync_mapping_command, from the answer to input() to the end of the pass.
SyncMappingAnswer ==
  /\ entry = "sync_mapping"
  /\ pc = "prompt"
  /\ \E answer \in Answers :
       IF answer = "y"
       THEN \E wstatus \in WriteStatuses :
              Resume(answer, apply_mapping_update(cur.change.payload, wstatus))
       ELSE Resume(answer, Returned("cancelled", << >>))

\* A caller's loop over BlueprintService.process_blueprint_file, one pass
\* up to input().
ServiceBlueprintFile ==
  /\ entry = "blueprint_service"
  /\ pc = "file"
  /\ \E load \in LoadKinds :
     \E local \in LocalsOf(load, LocalBlueprints) :
     \E gstatus \in GetStatusesOf(local, "identifier") :
     \E body \in BodiesOf(gstatus, GetBodies("blueprint")), url404 \in Url404Of(gstatus) :
     \E related \in RelatedOf(local) :
     \E wstatus \in AnswersTo(related,
                     WriteStatusesOf(process_blueprint_file(load, local, gstatus, body,
                       url404, 200, args.force, args.skip_confirmation))) :
       LET r == Fed(Inputs(load, local, gstatus, body, url404, wstatus, 0, EmptyDoc),
                    Against(related, Loaded(local,
                       process_blueprint_file(load, local, gstatus, body, url404, wstatus,
                                              args.force, args.skip_confirmation))))
       IN  IF r.raised THEN Abort(load, r)
           ELSE IF r.status = "input" THEN Block(load, r)
           ELSE Settle(load, r)

\* The same, from the answer to input() on.
ServiceBlueprintAnswer ==
  /\ entry = "blueprint_service"
  /\ pc = "prompt"
  /\ \E answer \in Answers :
     \E wstatus \in AnswersTo(cur.related, IF answer = "y" THEN WriteStatuses ELSE {200}) :
       Resume(answer, process_blueprint_file_answer(answer, cur.change.payload, wstatus))

\* main() of main.py, one pass of the loop up to input().
MainBlueprintFile ==
  /\ entry = "main"
  /\ pc = "file"
  /\ \E load \in LoadKinds :
     \E local \in LocalsOf(load, LocalBlueprints) :
     \E gstatus \in GetStatusesOf(local, "identifier") :
     \E body \in BodiesOf(gstatus, GetBodies("blueprint")) :
     \E wstatus \in WriteStatusesOf(main_process_blueprint_file(load, local, gstatus,
                       body, 200, args.force)) :
       LET r == Fed(Inputs(load, local, gstatus, body, FALSE, wstatus, 0, EmptyDoc),
                    Loaded(local,
                       main_process_blueprint_file(load, local, gstatus, body, wstatus,
                                                   args.force)))
       IN  IF r.raised THEN Abort(load, r)
           ELSE IF r.status = "input" THEN Block(load, r)
           ELSE Settle(load, r)

\* The same, from the answer to input() on.
MainBlueprintAnswer ==
  /\ entry = "main"
  /\ pc = "prompt"
  /\ \E answer \in Answers :
     \E wstatus \in (IF answer = "s" THEN WriteStatuses ELSE {200}) :
       Resume(answer, main_process_blueprint_file_answer(answer, cur.change.payload,
                                                         wstatus))

\* main() of cli.py, one pass of the loop.
CliFile ==
  /\ entry = "cli"
  /\ pc = "file"
  /\ \E load \in LoadKinds :
     \E local \in LocalsOf(load, LocalBlueprints) :
     \E gstatus \in GetStatusesOf(local, "identifier") :
     \E body \in BodiesOf(gstatus, GetBodies("resource")) :
     \E wstatus \in WriteStatusesOf(cli_process_file(load, local, gstatus, body, 200,
                                                     args.force)) :
       LET r == Fed(Inputs(load, local, gstatus, body, FALSE, wstatus, 0, EmptyDoc),
                    Loaded(local,
                       cli_process_file(load, local, gstatus, body, wstatus, args.force)))
       IN  IF r.raised THEN Abort(load, r) ELSE Settle(load, r)

\* The loop of sync_scorecard_command, one pass up to input().
ScorecardFile ==
  /\ entry = "scorecard_service"
  /\ pc = "file"
  /\ \E load \in LoadKinds :
     \E wrapper \in LocalsOf(load, LocalScorecards) :
     \E bstatus \in GetStatusesOf(Sub(wrapper, "scorecard"), "identifier") :
     \E bbody \in BodiesOf(bstatus, ValidationBodies), url404 \in Url404Of(bstatus) :
     \E gstatus \in (IF Len(process_scorecard_file(load, wrapper, bstatus, bbody, url404,
                            200, EmptyDoc, 200, args.dry_run, args.no_prompt).calls) < 2
                     THEN {200} ELSE GetStatuses) :
     \E sbody \in BodiesOf(gstatus, ScorecardBodies) :
     \E wstatus \in WriteStatusesOf(process_scorecard_file(load, wrapper, bstatus, bbody,
                       url404, gstatus, sbody, 200, args.dry_run, args.no_prompt)) :
       LET r == Fed(Inputs(load, wrapper, gstatus, sbody, url404, wstatus, bstatus, bbody),
                    Loaded(wrapper,
                       process_scorecard_file(load, wrapper, bstatus, bbody, url404, gstatus,
                                              sbody, wstatus, args.dry_run, args.no_prompt)))
       IN  IF r.raised THEN Abort(load, r)
           ELSE IF r.status = "confirmation_required" /\ ~args.no_prompt
           THEN Block(load, r)
           ELSE Settle(load, r)

\* The same, from the answer to input() on.
ScorecardAnswer ==
  /\ entry = "scorecard_service"
  /\ pc = "prompt"
  /\ \E answer \in Answers :
       IF answer = "y"
       THEN \E wstatus \in WriteStatuses :
              Resume(answer, apply_scorecard_change(cur.change, wstatus))
       ELSE Resume(answer, Returned("cancelled", << >>))

\* After the loop: the commands sys.exit(1) if service.has_failures; the
\* scripts return (no script sets has_failures).
Finish ==
  /\ pc = "loop"
  /\ idx = NumFiles + 1
  /\ Exit(IF has_failures THEN 1 ELSE 0)
  /\ UNCHANGED <<entry, args, idx, has_failures, outcome, cur, session, input_paths, json_files>>

Next ==
  \/ Startup
  \/ NextFile
  \/ MainBlueprintFile
  \/ MainBlueprintAnswer
  \/ CliFile
  \/ ServiceBlueprintFile
  \/ ServiceBlueprintAnswer
  \/ SyncMappingFile
  \/ SyncMappingAnswer
  \/ ScorecardFile
  \/ ScorecardAnswer
  \/ Finish

Spec == Init /\ [][Next]_vars

----------------------------------------------------------------------------
(* cli/commands.py: process_input_paths and process_yaml_input_paths *)

\* The longest list of paths given.
MaxPaths == 3

\* One directory, reached as "d" and as "./d", and what os.walk lists in it.
Prefixes == {"d", "./d"}

DirListing == <<"a.json", "a.yml", "b.json", "b.yaml">>

\* A path as it is spelled: prefix and name joined by "/"; the name "" is
\* the directory itself, "gone.json" does not exist.
Path(prefix, name) == [prefix |-> prefix, name |-> name]

GivenPaths ==
  {Path(x, n) : x \in Prefixes, n \in {"", "a.json", "a.yml", "b.json", "b.yaml", "gone.json"}}

\* os.path.exists, os.path.isdir
Exists(path) == path.name # "gone.json"

IsDir(path) == path.name = ""

\* path.endswith('.json') for the JSON commands, path.endswith(('.yml',
\* '.yaml')) for sync-mapping.
HasSuffix(name, kind) ==
  IF kind = "json" THEN name \in {"a.json", "b.json", "gone.json"}
  ELSE name \in {"a.yml", "b.yaml"}

\* The file a spelled path names: both prefixes name the same directory.
FileOf(path) == path.name

\* What one given path adds to the list: itself when it is a file with the
\* suffix, os.path.join(root, file) for the files with the suffix when it is
\* a directory, nothing when it does not exist.
Expand(path, kind) ==
  IF ~Exists(path) THEN << >>
  ELSE IF ~IsDir(path) THEN (IF HasSuffix(path.name, kind) THEN <<path>> ELSE << >>)
  ELSE SelectSeq([i \in DOMAIN DirListing |-> Path(path.prefix, DirListing[i])],
                 LAMBDA f : HasSuffix(f.name, kind))

RECURSIVE Collect(_, _)
\* The loop over paths.
Collect(paths, kind) ==
  IF paths = << >> THEN << >>
  ELSE Collect(SubSeq(paths, 1, Len(paths) - 1), kind) \o Expand(paths[Len(paths)], kind)

\* A list returned as it was collected.
FromKeys_keeping_all(files) == files

RECURSIVE FromKeys(_)
\* list(dict.fromkeys(files)): each key once, at its first place.
FromKeys(files) ==
  IF files = << >> THEN << >>
  ELSE LET rest == FromKeys(SubSeq(files, 1, Len(files) - 1))
           last == files[Len(files)]
       IN  IF \E i \in DOMAIN rest : rest[i] = last THEN rest ELSE Append(rest, last)

process_input_paths(paths) == FromKeys(Collect(paths, "json"))

process_yaml_input_paths(paths) == FromKeys(Collect(paths, "yaml"))

\* The lists of at most MaxPaths given paths.
PathLists == UNION {[1..n -> GivenPaths] : n \in 1..MaxPaths}

\* A command is given its paths.
PathsInit ==
  /\ entry \in {"sync_blueprint", "sync_mapping", "sync_scorecard"}
  /\ args = NoArgs
  /\ pc = "paths"
  /\ idx = 1
  /\ has_failures = FALSE
  /\ exit_code = Running
  /\ outcome = [i \in Files |-> "none"]
  /\ cur = NoCur
  /\ session = "ok"
  /\ input_paths \in PathLists
  /\ json_files = << >>

\* json_files = process_input_paths(...) / yaml_files =
\* process_yaml_input_paths(...); 'if not json_files: sys.exit(1)'.
ListFiles ==
  /\ pc = "paths"
  /\ json_files' = IF entry = "sync_mapping" THEN process_yaml_input_paths(input_paths)
                   ELSE process_input_paths(input_paths)
  /\ IF json_files' = << >> THEN Exit(1) ELSE pc' = "listed" /\ exit_code' = exit_code
  /\ UNCHANGED <<entry, args, idx, has_failures, outcome, cur, session, input_paths>>

PathsNext == ListFiles

PathsSpec == PathsInit /\ [][PathsNext]_vars

----------------------------------------------------------------------------
(* Properties *)

\* The programs built on core/: the three services.
ServiceEntries == {"blueprint_service", "sync_mapping", "scorecard_service"}

\* The failure outcomes.
FailureStatuses == {"file_error", "config_error", "validation_error", "api_error",
                    "conflict", "unexpected_error", "internal_error"}

\* A pass on some declaration has been made.
InPass == cur.file \in Files

UpdateCalls == {i \in DOMAIN cur.calls : cur.calls[i].op = "update"}

CreateCalls == {i \in DOMAIN cur.calls : cur.calls[i].op = "create"}

\* C1: with dry-run set, no pass makes a Gateway write (create or update),
\* whatever the other flags are and whatever the files and the service hold;
\* in particular not when the diff is non-empty.
C1_DryRunNoWrite == args.dry_run => Writes(cur.calls) = {}

\* A dry-run pass of sync-mapping with --no-prompt that found a non-empty diff.
C1_Witness ==
  /\ entry = "sync_mapping"
  /\ args.dry_run /\ args.no_prompt
  /\ InPass /\ cur.diff = "nonempty"
  /\ outcome[cur.file] = "dry_run"

\* C2 as stated: in the services, a pass that fetched the remote object and
\* found no difference ends in no_changes without a Gateway write.
C2_EmptyDiffNoChange ==
  (entry \in ServiceEntries /\ InPass /\ cur.fetch = "found" /\ cur.diff = "empty")
    => (outcome[cur.file] = "no_changes" /\ Writes(cur.calls) = {})

\* C3 as stated: in BlueprintService, with a non-empty diff, a remote object
\* updated within the protection window and force false, no update call is
\* made unless the user has confirmed.
C3_NoUpdateWithoutConfirmation ==
  (entry = "blueprint_service" /\ InPass /\ cur.diff = "nonempty" /\ cur.recent
     /\ ~args.force /\ cur.answer # "y")
    => UpdateCalls = {}

\* C4 as stated: in the services, a fetch answered not-found is not a
\* failure outcome and leads to no update call.
C4_NotFoundIsCreate ==
  (entry \in ServiceEntries /\ InPass /\ cur.fetch = "notfound" /\ pc # "prompt")
    => (outcome[cur.file] \notin FailureStatuses \/ CreateCalls # {}) /\ UpdateCalls = {}

\* C5 as stated: no blueprint update payload holds a server-managed top-level
\* field or a reserved entry of schema.properties.
C5_UpdatePayloadStripped ==
  (entry \in {"blueprint_service", "cli", "main"}) =>
    \A i \in UpdateCalls : \A p \in DOMAIN cur.calls[i].payload :
      /\ p[1] \notin TopLevelMeta
      /\ ~(Len(p) >= 3 /\ p[1] = "schema" /\ p[2] = "properties"
             /\ p[3] \in ReservedProperties)

C7_ConflictIsDistinct ==
  (entry \in {"blueprint_service", "scorecard_service"}) =>
    \A i \in CreateCalls : cur.calls[i].status = 409 =>
      (outcome[cur.file] = "conflict" /\ i = Len(cur.calls))

\* C8 as stated: in the two scripts, a fetch that failed with an error
\* other than not-found is followed by no create or update call.
C8_FetchErrorIsTerminal ==
  (entry \in {"main", "cli"} /\ InPass /\ cur.fetch = "error") => Writes(cur.calls) = {}

\* C9 as stated: when sync-mapping has entered its loop and has exited,
\* every declaration of the list has an outcome.
C9_BatchNeverAborted ==
  (entry = "sync_mapping" /\ pc = "done" /\ InPass) =>
    \A i \in Files : outcome[i] # "none"

\* C10 as stated: when sync-mapping has exited and a declaration ended in a
\* failure outcome, the exit code is not zero.
C10_FailureExitsNonZero ==
  (entry = "sync_mapping" /\ pc = "done"
     /\ \E i \in Files : outcome[i] \in FailureStatuses)
    => exit_code # 0

\* A document without its top-level server-managed fields.
OutsideMeta(d) == [p \in {x \in DOMAIN d : x[1] \notin TopLevelMeta} |-> d[p]]

\* C11 as stated: in BlueprintService and main.py, when the fetched blueprint
\* and the declaration differ at a path outside the excluded fields (a value,
\* a value type, an element of a sequence), the pass does not end as a no-op.
C11_DifferenceIsChange ==
  (entry \in {"blueprint_service", "main"} /\ InPass /\ cur.fetch = "found"
     /\ OutsideMeta(cur.local) # OutsideMeta(cur.remote))
    => outcome[cur.file] # "no_changes"

\* A blueprint without the fields C12 lists as excluded: the top-level
\* server-managed fields and the reserved entries of schema.properties.
WithoutExcluded(d) ==
  LET reserved(p) == /\ Len(p) >= 3
                     /\ p[1] = "schema"
                     /\ p[2] = "properties"
                     /\ p[3] \in ReservedProperties
  IN  [p \in {x \in DOMAIN d : x[1] \notin TopLevelMeta /\ ~reserved(x)} |-> d[p]]

\* C12 as stated: when the fetched blueprint and the declaration are equal
\* once the top-level server-managed fields and the reserved schema.properties
\* entries are left out, the comparison of BlueprintService and of main.py
\* is empty.
C12_ExcludedFieldsIgnored ==
  (entry \in {"blueprint_service", "main"} /\ InPass /\ cur.fetch = "found"
     /\ outcome[cur.file] # "unexpected_error"
     /\ WithoutExcluded(cur.local) = WithoutExcluded(cur.remote))
    => cur.diff = "empty"

\* The keys of a declaration that reach the comparison: all of a scorecard,
\* all but integrationIdentifier of a mapping.
DeclaredKeys(local) == TopKeys(local) \ {"integrationIdentifier"}

\* The declaration and the remote object agree on every key declared.
AgreeOnDeclared(local, remote) ==
  /\ \A k \in DeclaredKeys(local) : Without(local, TopKeys(local) \ {k})
                                        = Without(remote, TopKeys(remote) \ {k})
  /\ ~HasKey(remote, "integrationIdentifier")

\* Some top-level key is present remotely and absent from the declaration.
RemoteOnlyKey(local, remote) == TopKeys(remote) \ TopKeys(local) # {}

Antisymmetric(diff, local, remote) ==
  /\ diff.dictionary_item_added \cap diff.dictionary_item_removed = {}
  /\ \A p \in DOMAIN local \cap DOMAIN remote :
       (p[1] \notin TopLevelMeta /\ local[p] # remote[p])
         => /\ p \notin diff.dictionary_item_added \cup diff.dictionary_item_removed
            /\ TypeOf(local[p]) = TypeOf(remote[p]) => p \in diff.values_changed

Prompted == pc = "prompt" \/ cur.answer # "none"

\* A blueprint pass of BlueprintService or main.py that compared the pair,
\* found a difference it displays and has to decide whether to ask.
GuardedPass ==
  /\ entry \in {"blueprint_service", "main"} /\ InPass /\ cur.fetch = "found"
  /\ cur.diff = "nonempty" /\ outcome[cur.file] # "unexpected_error"

\* C15: without force (and without skip_confirmation), a remote blueprint
\* that has an update timestamp is protected, the pass asking before it
\* updates, exactly when the timestamp is less than 86400 seconds old: at
\* 23 h 59 min it is, at 24 h and at 24 h 1 min it is not.
C15_ProtectedIffWithinWindow ==
  (GuardedPass /\ ~args.force /\ ~args.skip_confirmation /\ cur.age # NoAge)
    => (Prompted <=> cur.age < 86400)

\* An update sent without a prompt to a blueprint updated exactly 24 h ago.
C15_Witness ==
  /\ GuardedPass /\ ~args.force /\ ~args.skip_confirmation
  /\ cur.age = 86400 /\ ~Prompted /\ UpdateCalls # {}

\* C16: when the remote blueprint has no update timestamp, a pass that
\* found a difference sends the update without asking for confirmation.
C16_NoTimestampNoPrompt ==
  (GuardedPass /\ cur.age = NoAge) => (~Prompted /\ UpdateCalls # {})

\* An update applied, without force and without a prompt, to a blueprint
\* that has no updatedAt.
C16_Witness ==
  /\ GuardedPass /\ ~args.force /\ ~args.skip_confirmation
  /\ cur.age = NoAge /\ ~Prompted /\ outcome[cur.file] = "updated"

\* The force flag of the running program: --force of the blueprint programs,
\* --no-prompt (passed as force) of the mapping and scorecard services.
Forced ==
  IF entry \in {"sync_mapping", "scorecard_service"} THEN args.no_prompt ELSE args.force

\* C17: with force set (and no dry-run), every pass that fetched the remote
\* object and found a difference sends the update without reaching a prompt,
\* whatever the update timestamp of the remote object is.
C17_ForceSkipsGuard ==
  (InPass /\ cur.fetch = "found" /\ cur.diff = "nonempty"
     /\ outcome[cur.file] # "unexpected_error" /\ Forced /\ ~args.dry_run)
    => (~Prompted /\ UpdateCalls # {})

\* A forced update of a blueprint that was updated 23 h 59 min ago.
C17_Witness ==
  /\ entry = "blueprint_service" /\ GuardedPass /\ args.force /\ ~args.skip_confirmation
  /\ cur.age = 86340 /\ ~Prompted /\ outcome[cur.file] = "updated"

\* C18 as stated: in every service, a pass that found a difference, without
\* force (and without dry-run), on a remote object not updated within the
\* protection window, sends the update without reaching a prompt.
C18_UnprotectedIsAutomatic ==
  (entry \in ServiceEntries /\ InPass /\ cur.fetch = "found" /\ cur.diff = "nonempty"
     /\ outcome[cur.file] # "unexpected_error"
     /\ ~Forced /\ ~args.dry_run /\ ~cur.recent)
    => (~Prompted /\ UpdateCalls # {})

\* The document lacks key k, or holds an empty value for it.
Lacks(d, k) == <<k>> \notin DOMAIN d \/ d[<<k>>] = 0

\* The declaration read by the pass is a mapping (JSON object, YAML mapping)
\* without the identifying key of its kind: identifier; integrationIdentifier;
\* blueprintIdentifier or scorecard.identifier.
LacksIdentifyingKey ==
  /\ InPass /\ cur.load \in {"ok", "empty_dict"}
  /\ CASE entry = "sync_mapping" -> Lacks(cur.doc, "integrationIdentifier")
       [] entry = "scorecard_service" ->
            Lacks(cur.doc, "blueprintIdentifier") \/ Lacks(Sub(cur.doc, "scorecard"), "identifier")
       [] OTHER -> Lacks(cur.doc, "identifier")

\* C19 as stated: a declaration lacking its identifying key ends in
\* config_error and no Gateway call is made.
C19_MissingKeyIsConfigError ==
  LacksIdentifyingKey => (outcome[cur.file] = "config_error" /\ cur.calls = << >>)

\* C19 amended: a declaration lacking its identifying key ends without any
\* Gateway call, in config_error, except that the services end an empty
\* declaration ({}) in file_error.
C19_MissingKeyNoCall ==
  LacksIdentifyingKey
    => /\ cur.calls = << >>
       /\ outcome[cur.file] = IF entry \in ServiceEntries /\ cur.load = "empty_dict"
                              THEN "file_error" ELSE "config_error"

\* A non-empty scorecard declaration without scorecard.identifier, ended in
\* config_error with the failure recorded and no call made.
C19_Witness ==
  /\ entry = "scorecard_service" /\ LacksIdentifyingKey
  /\ ~Lacks(cur.doc, "blueprintIdentifier") /\ HasKey(cur.doc, "scorecard")
  /\ outcome[cur.file] = "config_error" /\ has_failures /\ cur.calls = << >>

\* C20 as stated: when the blueprint a declaration's relation targets does
\* not exist remotely, the pass of BlueprintService makes no Gateway write
\* (create or update): it fails before one.
C20_MissingRelationNoWrite ==
  (entry = "blueprint_service" /\ InPass /\ cur.related = "missing")
    => Writes(cur.calls) = {}

\* The keys of schema.properties of the remote blueprints.
RemoteProperties == TopKeys(Sub(Sub(Doc(RemoteCore), "schema"), "properties"))

\* The rule condition of the scorecard file names a property that does not
\* start with '$' and that the target blueprint does not have.
ReferencesUnknownProperty(wrapper) ==
  LET scorecard == Sub(wrapper, "scorecard")
  IN  /\ RulePath \in DOMAIN scorecard
      /\ ~StartsWithDollar(scorecard[RulePath])
      /\ PropertyKey(scorecard[RulePath]) \notin RemoteProperties

\* C21: a scorecard declaration whose rule condition names a property that
\* does not start with '$' and is not a schema property of the target
\* blueprint ends in validation_error, recorded as a failure, and the only
\* calls made for it are the blueprint fetch of the validation: no scorecard
\* fetch, create or update.
C21_UnknownPropertyFailsValidation ==
  (entry = "scorecard_service" /\ InPass /\ cur.load = "ok"
     /\ ReferencesUnknownProperty(cur.doc))
    => /\ outcome[cur.file] = "validation_error"
       /\ has_failures
       /\ \A i \in DOMAIN cur.calls : cur.calls[i].op = "get_blueprint"

\* A scorecard naming the property "ghost", validated against a blueprint
\* that was fetched (200) and ended in validation_error.
C21_Witness ==
  /\ entry = "scorecard_service" /\ InPass /\ cur.load = "ok"
  /\ ReferencesUnknownProperty(cur.doc)
  /\ Len(cur.calls) = 1 /\ cur.calls[1].op = "get_blueprint" /\ cur.calls[1].status = 200
  /\ outcome[cur.file] = "validation_error"

\* C22: when the credentials are missing or the authentication fails, the
\* process has exited with a non-zero code, no declaration was loaded and no
\* fetch, create or update call was made.
C22_StartupFailureIsFatal ==
  session \in {"missing_credentials", "auth_failed"}
    => /\ pc = "done" /\ exit_code # Running /\ exit_code # 0
       /\ cur = NoCur
       /\ \A i \in Files : outcome[i] = "none"

\* A process that had credentials, was refused by the authentication and
\* exited with code 1.
C22_Witness ==
  session = "auth_failed" /\ pc = "done" /\ exit_code = 1 /\ cur = NoCur

\* The answer the running program takes as consent: 's' in main.py, 'y' in
\* the commands and the services.
YesAnswer == IF entry = "main" THEN "s" ELSE "y"

\* C23: a step in which the user declines the prompt makes no Gateway write
\* for the declaration, ends it as cancelled, leaves has_failures as it was
\* and returns to the loop at the next declaration, the process still running.
C23_DeclineSkipsOnlyThatFile ==
  [][(pc = "prompt" /\ cur'.answer # YesAnswer)
       => /\ Writes(cur'.calls) = {}
          /\ outcome'[idx] = "cancelled"
          /\ has_failures' = has_failures
          /\ pc' = "loop" /\ idx' = idx + 1 /\ exit_code' = Running]_vars

\* The first declaration was declined and the second was reconciled after it.
C23_Witness ==
  /\ outcome[1] = "cancelled" /\ ~has_failures
  /\ InPass /\ cur.file = 2 /\ outcome[2] \in {"updated", "created", "no_changes"}

\* C24: with no-prompt set the run is never blocked in input() and no answer
\* is ever read; a declaration whose pass is over has been skipped or applied
\* and is not left waiting for a confirmation.
C24_NoPromptNeverBlocks ==
  args.no_prompt
    => /\ pc # "prompt"
       /\ InPass => cur.answer = "none"
       /\ \A i \in Files : outcome[i] # "confirmation_required"

\* sync-mapping with --no-prompt applied a change without a prompt.
C24_Witness ==
  /\ entry = "sync_mapping" /\ args.no_prompt /\ ~args.dry_run
  /\ InPass /\ cur.diff = "nonempty" /\ cur.answer = "none"
  /\ UpdateCalls # {} /\ outcome[cur.file] = "updated"

\* C25: declarations are reconciled one at a time in the order supplied.
\* Every step stays at declaration idx or moves to idx + 1; only the outcome
\* of declaration idx changes; a step that makes Gateway calls makes them for
\* declaration idx, every earlier declaration being settled and none later
\* begun; and the loop moves on only when the calls and the prompt of
\* declaration idx are over.
C25_OneAtATimeInOrder ==
  [][/\ idx' \in {idx, idx + 1}
     /\ \A i \in Files : outcome'[i] # outcome[i] => i = idx
     /\ (cur'.calls # cur.calls /\ cur'.calls # << >>)
          => /\ cur'.file = idx
             /\ \A j \in Files : /\ j < idx => outcome[j] # "none"
                                 /\ j > idx => outcome'[j] = "none"
     /\ idx' = idx + 1
          => /\ pc' = "loop"
             /\ outcome'[idx] \notin {"none", "input", "confirmation_required"}]_vars

\* The second declaration made its Gateway calls after the first had been
\* written and settled.
C25_Witness ==
  /\ InPass /\ cur.file = 2 /\ Writes(cur.calls) # {}
  /\ outcome[1] \in {"updated", "created"} /\ outcome[2] \in {"updated", "created"}

\* What the handler of program e, called with flags a, returns for inputs in.
HandlerOf(e, a, in) ==
  CASE e = "sync_mapping" ->
         process_mapping_file(in.load, in.local, in.gstatus, in.body, in.wstatus,
                              a.dry_run, a.no_prompt)
    [] e = "blueprint_service" ->
         process_blueprint_file(in.load, in.local, in.gstatus, in.body, in.url404,
                                in.wstatus, a.force, a.skip_confirmation)
    [] e = "main" ->
         main_process_blueprint_file(in.load, in.local, in.gstatus, in.body, in.wstatus,
                                     a.force)
    [] e = "cli" ->
         cli_process_file(in.load, in.local, in.gstatus, in.body, in.wstatus, a.force)
    [] OTHER ->
         process_scorecard_file(in.load, in.local, in.bstatus, in.bbody, in.url404,
                                in.gstatus, in.body, in.wstatus, a.dry_run, a.no_prompt)

\* C26: the Gateway calls a pass makes and the outcome it returns are those
\* the handler gives for the flags and for what the pass read (the file and
\* the answers of the service), whatever has_failures was when it started.
C26_FailuresFlagDoesNotSteer ==
  (InPass /\ cur.inputs # NoInputs)
    => LET r == HandlerOf(entry, args, cur.inputs)
       IN  /\ SubSeq(cur.calls, 1, Len(r.calls)) = r.calls
           /\ cur.answer = "none"
                => /\ cur.calls = r.calls
                   /\ IF r.raised THEN pc = "done" /\ outcome[cur.file] = "none"
                      ELSE outcome[cur.file] = r.status

\* The first declaration failed and set has_failures; the second was then
\* compared and updated as its handler says.
C26_Witness ==
  /\ InPass /\ cur.file = 2 /\ cur.inputs # NoInputs
  /\ outcome[1] \in FailureStatuses /\ has_failures
  /\ outcome[2] = "updated" /\ UpdateCalls # {}

\* What the file declares to the create call of program e: for a scorecard
\* the object under the wrapper's 'scorecard' key (the wrapper's
\* blueprintIdentifier goes into the URL), else the whole document.
DeclaredObject(e, doc) == IF e = "scorecard_service" THEN Sub(doc, "scorecard") ELSE doc

\* C27: the payload of every create call is the declared object as the file
\* gave it, nothing stripped and nothing added: the whole document of a
\* blueprint, the nested scorecard object of a scorecard file.
C27_CreateSendsDeclaredObject ==
  InPass => \A i \in CreateCalls : cur.calls[i].payload = DeclaredObject(entry, cur.doc)

\* C27 as stated: the payload of every create call is the whole document of
\* the file.
C27_CreateSendsWholeFile ==
  InPass => \A i \in CreateCalls : cur.calls[i].payload = cur.doc

\* A blueprint that declares a top-level createdAt and a schema property named
\* createdAt was created, and the create call carried both.
C27_Witness ==
  /\ entry = "blueprint_service" /\ InPass /\ outcome[cur.file] = "created"
  /\ <<"createdAt">> \in DOMAIN cur.doc
  /\ <<"schema", "properties", "createdAt">> \in DOMAIN cur.doc
  /\ \E i \in CreateCalls : cur.calls[i].payload = cur.doc

\* main.py, PortAPIClient._get_access_token: the headers the session keeps
\* once authenticated; Authorization holds 'Bearer <access token>'.
SessionHeaders == {"Authorization", "Content-Type"}

\* main.py, PortAPIClient.update_blueprint: print(update_payload, url,
\* self._session.headers) before the PUT. The headers a call prints: those of
\* the session for an update of main.py, none elsewhere.
PrintedHeaders(e, c) == IF e = "main" /\ c.op = "update" THEN SessionHeaders ELSE {}

\* C28: no Gateway call prints the Authorization header, which holds the
\* bearer access token.
C28_BearerTokenNeverPrinted ==
  InPass => \A i \in DOMAIN cur.calls : "Authorization" \notin PrintedHeaders(entry, cur.calls[i])

\* The groups a reporter prints for a diff: of the kinds of change it looks
\* for, in the order of its 'if ... in parsed_diff' blocks, those the diff has.
Groups(order, diff) == SelectSeq(order, LAMBDA g : diff[g] # {})

\* ScorecardService._log_diff: Modified Fields, Added Fields, Removed Fields,
\* Added Items (in a list), Removed Items (in a list).
log_diff(diff) ==
  Groups(<<"values_changed", "dictionary_item_added", "dictionary_item_removed",
           "iterable_item_added", "iterable_item_removed">>, diff)

\* MappingService._format_diff: Added Resources, Removed Resources, Modified
\* Resources.
format_diff(diff) ==
  Groups(<<"dictionary_item_added", "dictionary_item_removed", "values_changed">>, diff)

\* BlueprintService.compare_blueprints, the logging of formatted_diff: Added
\* fields, Removed fields, Modified fields.
compare_blueprints_log(formatted_diff) ==
  Groups(<<"dictionary_item_added", "dictionary_item_removed", "values_changed">>,
         formatted_diff)

\* The groups printed in the pass, from the objects it compared.
ReportedGroups ==
  CASE entry = "scorecard_service" ->
         log_diff(DeepDiff(NormalizedRemote(cur.remote, cur.local), cur.local, {}))
    [] entry = "sync_mapping" ->
         format_diff(DeepDiff(cur.remote, DesiredConfig(cur.remote, cur.local), {}))
    [] OTHER -> compare_blueprints_log(compare_blueprints(cur.local, cur.remote))

\* Added before Removed before Modified.
GroupRank(g) ==
  CASE g \in {"dictionary_item_added", "iterable_item_added"} -> 1
    [] g \in {"dictionary_item_removed", "iterable_item_removed"} -> 2
    [] OTHER -> 3

\* The pass went past the report of a diff it found.
Reported ==
  /\ InPass /\ cur.diff = "nonempty"
  /\ \/ outcome[cur.file] \in {"dry_run", "confirmation_required", "cancelled", "updated"}
     \/ UpdateCalls # {}

AppliedWrite == cur.calls[CHOOSE i \in Writes(cur.calls) : cur.calls[i].status = 200]

\* What the service holds after that write when nobody else touches it: the
\* payload as sent, stamped with an updatedAt of now (a blueprint or a
\* scorecard; an integration's config carries no stamp of its own).
Stored ==
  IF entry = "sync_mapping" THEN AppliedWrite.payload
  ELSE Update(AppliedWrite.payload, Doc({<< <<"updatedAt">>, 0 >>}))

\* The bodies the next GET of the object can answer with, in the shape the
\* program reads: for BlueprintService, which reads ["blueprint"] of what
\* BlueprintClient.get_blueprint has already taken from under "blueprint",
\* both the body of the service and the doubly wrapped one.
NextBodies ==
  CASE entry = "sync_mapping"      -> {Stored}
    [] entry = "scorecard_service" -> {Wrap("scorecard", Stored)}
    [] entry = "cli"               -> {Wrap("resource", Stored)}
    [] entry = "blueprint_service" ->
         {Wrap("blueprint", Stored),
          Wrap("blueprint", Update(Stored, Wrap("blueprint", Stored)))}
    [] OTHER                       -> {Wrap("blueprint", Stored)}

\* The same declaration reconciled again, with the same flags, against body.
Again(body) ==
  HandlerOf(entry, args, [cur.inputs EXCEPT !.gstatus = 200, !.body = body, !.url404 = FALSE])

\* The pass created or updated the object.
Applied ==
  /\ InPass /\ outcome[cur.file] \in {"created", "updated"}
  /\ \E i \in Writes(cur.calls) : cur.calls[i].status = 200

\* The next bodies the program can compare with the declaration: those
\* BlueprintService finds a "blueprint" key in.
ComparableBodies ==
  {b \in NextBodies :
     entry = "blueprint_service" => HasKey(Sub(b, "blueprint"), "blueprint")}

\* C30: after a pass of a service or of main.py that created or updated the
\* object, reconciling the same declaration again, against the object as the
\* write left it, finds no change and makes no write.
C30_SecondPassFindsNoChange ==
  (Applied /\ entry # "cli")
    => \A body \in ComparableBodies :
         /\ ~Again(body).raised
         /\ Again(body).status = "no_changes"
         /\ Writes(Again(body).calls) = {}

\* C31: a pass makes at most one Gateway write (create or update), whether
\* it applies by force, after an answer or without prompt, and whether the
\* write succeeds or fails.
C31_AtMostOneWritePerPass ==
  InPass => Cardinality(Writes(cur.calls)) <= 1

\* A forced mapping update failed, and the pass ended there with that one
\* write.
C31_Witness ==
  /\ entry = "sync_mapping" /\ InPass /\ args.no_prompt /\ cur.answer = "none"
  /\ outcome[cur.file] = "api_error"
  /\ \E i \in UpdateCalls : cur.calls[i].status = 500
  /\ Cardinality(Writes(cur.calls)) = 1

\* BlueprintClient._prepare_update_payload and update_blueprint of main.py,
\* what they leave of the caller's blueprint_data: update_payload =
\* blueprint_data.copy() copies the top level only, so the pops act on the
\* copy and 'del update_payload['schema']['properties'][key]' acts on the
\* dict the caller's object holds too.
blueprint_data_after_update(blueprint_data) ==
  LET reserved(p) == /\ Len(p) >= 3
                     /\ p[1] = "schema"
                     /\ p[2] = "properties"
                     /\ p[3] \in ReservedProperties
  IN  [p \in {x \in DOMAIN blueprint_data : ~reserved(x)} |-> blueprint_data[p]]

\* The declaration object the caller holds once the pass is over.
DeclarationAfterPass ==
  IF entry \in {"blueprint_service", "main"} /\ UpdateCalls # {}
  THEN blueprint_data_after_update(cur.doc)
  ELSE cur.doc

\* C32: after update_blueprint the caller's declaration object is the one
\* the file gave, every top-level key and every schema.properties entry
\* included.
C32_UpdateLeavesDeclaration ==
  (InPass /\ UpdateCalls # {}) => DeclarationAfterPass = cur.doc

\* What document d holds under its top-level key k.
UnderKey(d, k) == Without(d, TopKeys(d) \ {k})

\* C33: the config a mapping update sends has the top-level keys of the
\* remote config and of the local declaration less integrationIdentifier;
\* under a key of the local declaration it holds what the declaration
\* holds, under any other key what the remote config holds.
C33_MappingPayloadIsMerge ==
  (entry = "sync_mapping" /\ InPass)
    => \A i \in UpdateCalls :
         LET config == cur.calls[i].payload
         IN  /\ TopKeys(config) =
                  (TopKeys(cur.remote) \cup TopKeys(cur.local)) \ {"integrationIdentifier"}
             /\ \A k \in TopKeys(config) :
                  UnderKey(config, k) = IF k \in TopKeys(cur.local)
                                        THEN UnderKey(cur.local, k)
                                        ELSE UnderKey(cur.remote, k)

\* An update was sent whose config keeps a key only the remote config has,
\* next to a key only the declaration has.
C33_Witness ==
  /\ entry = "sync_mapping" /\ InPass /\ outcome[cur.file] = "updated"
  /\ "integrationIdentifier" \in TopKeys(cur.local)
  /\ "enableMergeEntity" \in TopKeys(cur.remote) \ TopKeys(cur.local)
  /\ "deleteDependentEntities" \in TopKeys(cur.local) \ TopKeys(cur.remote)
  /\ \E i \in UpdateCalls :
       /\ "enableMergeEntity" \in TopKeys(cur.calls[i].payload)
       /\ "deleteDependentEntities" \in TopKeys(cur.calls[i].payload)
       /\ "integrationIdentifier" \notin TopKeys(cur.calls[i].payload)

\* What BlueprintClient.get_blueprint returned to the validation of the
\* pass: response.get("blueprint") of a 200 answer.
ReturnedBlueprint ==
  IF cur.inputs.bstatus = 200 THEN Sub(cur.inputs.bbody, "blueprint") ELSE EmptyDoc

\* The rule condition of the scorecard, if it has one, names a property that
\* starts with '$' or is a key of schema.properties of blueprint.
ReferencesOnlyPropertiesOf(blueprint, wrapper) ==
  LET scorecard == Sub(wrapper, "scorecard")
  IN  RulePath \in DOMAIN scorecard
        => \/ StartsWithDollar(scorecard[RulePath])
           \/ PropertyKey(scorecard[RulePath])
                \in TopKeys(Sub(Sub(blueprint, "schema"), "properties"))

\* C34: a scorecard whose target blueprint get_blueprint returned, and whose
\* rule condition names only '$' properties or schema properties of that
\* blueprint, is not failed by the validation.
C34_KnownPropertyPassesValidation ==
  (/\ entry = "scorecard_service" /\ InPass /\ cur.load = "ok"
   /\ ReturnedBlueprint # EmptyDoc
   /\ ReferencesOnlyPropertiesOf(ReturnedBlueprint, cur.doc))
    => outcome[cur.file] # "validation_error"

\* C35: in BlueprintService, a fetch answered with an error whose status is
\* not 404 is not taken for not-found: no create call follows and the
\* declaration ends in api_error, whatever the error's message holds.
C35_Only404IsNotFound ==
  (/\ entry = "blueprint_service" /\ InPass /\ cur.load = "ok"
   /\ \E i \in DOMAIN cur.calls :
        cur.calls[i].op = "get" /\ cur.calls[i].status \notin {200, 404})
    => /\ CreateCalls = {}
       /\ outcome[cur.file] = "api_error"

\* The three sync commands as shipped.
SyncCommands == {"sync_blueprint", "sync_mapping", "sync_scorecard"}

\* The outcomes that are no failure.
BenignStatuses == {"no_changes", "created", "updated", "dry_run", "cancelled", "skipped"}

\* C36: a sync command that got its credentials and its session, and in whose
\* run no declaration was left without a benign outcome once a pass had been
\* started, exits with code zero.
C36_BenignBatchExitsZero ==
  (/\ entry \in SyncCommands /\ pc = "done" /\ session = "ok"
   /\ \A i \in Files : \/ outcome[i] \in BenignStatuses
                       \/ (outcome[i] = "none" /\ ~InPass))
    => exit_code = 0

\* The kind of file the command of the run lists.
KindOf(e) == IF e = "sync_mapping" THEN "yaml" ELSE "json"

\* The places of the collected list that hold path.
PlacesOf(path, files) == {i \in DOMAIN files : files[i] = path}

\* C37: the list of files to process holds every path spelled alike once, in
\* the order of the first occurrences in what the given paths expand to.
C37_EachSpelledPathOnce ==
  pc \in {"listed", "done"}
    => LET all == Collect(input_paths, KindOf(entry))
       IN  /\ \A i, j \in DOMAIN json_files : json_files[i] = json_files[j] => i = j
           /\ {json_files[i] : i \in DOMAIN json_files} = {all[i] : i \in DOMAIN all}
           /\ \A i, j \in DOMAIN json_files :
                i < j => \E m \in PlacesOf(json_files[i], all) :
                           \A n \in PlacesOf(json_files[j], all) : m < n

\* C37 as stated: no file is in the list to process twice.
C37_EachFileOnce ==
  pc \in {"listed", "done"}
    => \A i, j \in DOMAIN json_files :
         FileOf(json_files[i]) = FileOf(json_files[j]) => i = j

\* d/b.json was given, then the directory d, then d/b.json again: the list
\* is d/b.json, d/a.json.
C37_Witness ==
  /\ pc = "listed" /\ entry = "sync_blueprint"
  /\ input_paths = <<Path("d", "b.json"), Path("d", ""), Path("d", "b.json")>>
  /\ json_files = <<Path("d", "b.json"), Path("d", "a.json")>>

\* The outcomes that are final: a declaration waiting for an answer has none
\* yet.
FinalStatuses == BenignStatuses \cup FailureStatuses

\* C38: when a sync command that got its credentials and its session has
\* come to its end, every declaration of the list has a final outcome.
C38_EndsWithEveryOutcome ==
  (entry \in SyncCommands /\ session = "ok" /\ pc = "done")
    => \A i \in Files : outcome[i] \in FinalStatuses

====
